---- MODULE Spec2Model ----
(***************************************************************************)
(* Model of src/server.py: a multi-room chat relay over websockets.        *)
(*                                                                         *)
(* The server is one asyncio event loop.  Each connection runs the         *)
(* coroutine ws_endpoint; coroutines are scheduled cooperatively, so the   *)
(* code between two `await`s of a handler is one atomic step, and another  *)
(* handler can run only while a handler is suspended in an `await`.  Every *)
(* action below is such a step: it resumes one handler at the await it is  *)
(* suspended in and runs it up to and including the next await.            *)
(*                                                                         *)
(* Strings that the code inspects character by character (room names,      *)
(* user names, message texts) are sequences of one-character strings.      *)
(***************************************************************************)
EXTENDS Naturals, Integers, Sequences, FiniteSets, TLC

(***************************************************************************)
(* Bounds of the model and constants of the program.                       *)
(***************************************************************************)
\* The server reads inbound frames while the clock is below MaxNow; the
\* clock ticks once per frame read and once per session ended.
MaxNow == 4
\* Appends one behaviour of the history specification performs per room.
MaxAppends == 52
\* Lines of a short log the load specification starts on.
MaxLines == 3
\* src/server.py:23
MAX_HISTORY == 50

Conns == {"c1", "c2"}

GENERAL == <<"g", "e", "n", "e", "r", "a", "l">>

\* username = None (src/server.py:131); "" and None are both falsy.
NoUser == <<>>

(***************************************************************************)
(* Strings.                                                                *)
(***************************************************************************)
\* str.isalnum on the characters the model uses.
isalnum(ch) ==
    ch \in {"a", "b", "d", "e", "g", "h", "i", "l", "n", "r", "v", "0", "1"}

\* str.isspace on the characters the model uses.
isspace(ch) == ch \in {" "}

RECURSIVE lstrip(_)
lstrip(str) ==
    IF str # <<>> /\ isspace(Head(str)) THEN lstrip(Tail(str)) ELSE str

RECURSIVE rstrip(_)
rstrip(str) ==
    IF str # <<>> /\ isspace(str[Len(str)])
    THEN rstrip(SubSeq(str, 1, Len(str) - 1))
    ELSE str

\* str.strip()
strip(str) == rstrip(lstrip(str))

\* "".join(ch for ch in room if ch.isalnum() or ch in ("-", "_")).strip() or "general"
safe_name(room) ==
    LET kept == SelectSeq(room, LAMBDA ch : isalnum(ch) \/ ch \in {"-", "_"})
        safe == strip(kept)
    IN  IF safe = <<>> THEN GENERAL ELSE safe

\* The log file of a room, named by the sanitized room name it is built from.
room_log_path(room) == safe_name(room)

(***************************************************************************)
(* Lines of a log file.  json.dumps writes a record as one line;           *)
(* json.loads reads a well-formed line back and raises on any other.       *)
(***************************************************************************)
json_dumps(payload) == <<"json", payload>>

json_ok(ln) == ln[1] = "json"

json_loads(ln) == ln[2]

\* ln.strip() is empty
blank_line(ln) == ln[1] = "blank"

\* The last n elements of a sequence: seq[-n:] for n > 0.
LastN(seq, n) ==
    IF Len(seq) <= n THEN seq ELSE SubSeq(seq, Len(seq) - n + 1, Len(seq))

(***************************************************************************)
(* State.                                                                  *)
(***************************************************************************)
VARIABLES
    clients,        \* dict username -> websocket, in insertion order
    user_rooms,     \* dict username -> room
    rooms,          \* dict room -> set of usernames
    history_cache,  \* dict room -> list of records
    files,          \* data/history_<safe>.jsonl: safe name -> lines
    conn,           \* per connection: where ws_endpoint is, and its locals
    open,           \* per connection: the handler has not met the transport closed
                    \* and has not closed it
    inbox,          \* per connection: the events the client was sent
    now             \* time.time(), in ticks: one per frame read or session ended

vars == <<clients, user_rooms, rooms, history_cache, files, conn, open, inbox, now>>

\* The program state as one record, for the operators that transform it.
\* drop: the connections whose client has gone by the time this step sends.
State(drop) ==
    [clients |-> clients, user_rooms |-> user_rooms, rooms |-> rooms,
     history_cache |-> history_cache, files |-> files, conn |-> conn,
     open |-> open, inbox |-> inbox, now |-> now, drop |-> drop]

Becomes(s) ==
    \E t \in {s} :
        /\ clients' = t.clients
        /\ user_rooms' = t.user_rooms
        /\ rooms' = t.rooms
        /\ history_cache' = t.history_cache
        /\ files' = t.files
        /\ conn' = t.conn
        /\ open' = t.open
        /\ inbox' = t.inbox
        /\ now' = t.now

\* The one element of a singleton.  Only({e : s \in {s0}}) is e with s0 for s,
\* with s0 evaluated once.
Only(S) == CHOOSE x \in S : TRUE

(***************************************************************************)
(* Python dicts.  user_rooms, rooms, history_cache and files are functions *)
(* whose domain is the set of keys; clients, the one dict the code         *)
(* iterates, is the sequence of its items in insertion order.              *)
(***************************************************************************)
Has(d, k) == k \in DOMAIN d

Put(d, k, v) == [x \in (DOMAIN d) \cup {k} |-> IF x = k THEN v ELSE d[x]]

Pop(d, k) == [x \in (DOMAIN d) \ {k} |-> d[x]]

EmptyDict == [x \in {} |-> {}]

\* clients.keys()
client_names(cl) == {cl[i].u : i \in 1..Len(cl)}

\* The connection registered under username, or "none".
ws_of(cl, username) ==
    IF \E i \in 1..Len(cl) : cl[i].u = username
    THEN cl[CHOOSE i \in 1..Len(cl) : cl[i].u = username].ws
    ELSE "none"

\* clients[username] = ws
clients_set(cl, username, ws) ==
    IF username \in client_names(cl)
    THEN [i \in 1..Len(cl) |->
            IF cl[i].u = username THEN [u |-> username, ws |-> ws] ELSE cl[i]]
    ELSE Append(cl, [u |-> username, ws |-> ws])

\* clients.pop(username, None)
clients_pop(cl, username) == SelectSeq(cl, LAMBDA item : item.u # username)

(***************************************************************************)
(* History store: src/server.py:36-67.                                     *)
(***************************************************************************)
\* load_history(room, max_items), reading the files fs
load_history(fs, room, max_items) ==
    LET p == room_log_path(room)
    IN  IF ~Has(fs, p) THEN <<>>
        ELSE LET lines == LastN(fs[p], max_items)
                 kept == SelectSeq(lines, LAMBDA ln : ~blank_line(ln))
             IN  IF \E i \in 1..Len(kept) : ~json_ok(kept[i])
                 THEN <<>>
                 ELSE [i \in 1..Len(kept) |-> json_loads(kept[i])]

\* ensure_room(room)
ensure_room(s, room) ==
    LET s1 == IF ~Has(s.rooms, room)
              THEN [s EXCEPT !.rooms = Put(s.rooms, room, {})]
              ELSE s
    IN  IF ~Has(s1.history_cache, room)
        THEN [s1 EXCEPT !.history_cache =
                 Put(s1.history_cache, room, load_history(s1.files, room, MAX_HISTORY))]
        ELSE s1

\* An eviction that drops the newest entry, pop() for pop(0).
cache_append_pop_last(cache, payload) ==
    LET added == Append(cache, payload)
    IN  IF Len(added) > MAX_HISTORY THEN SubSeq(added, 1, Len(added) - 1) ELSE added

\* history_cache[room].append(payload), then pop(0) when over MAX_HISTORY
cache_append(cache, payload) ==
    LET added == Append(cache, payload)
    IN  IF Len(added) > MAX_HISTORY THEN Tail(added) ELSE added

\* An append that writes the new line at the head of the log file.
append_history_prepend(s, room, payload) ==
    LET p == room_log_path(room)
        old == IF Has(s.files, p) THEN s.files[p] ELSE <<>>
    IN  [s EXCEPT !.files = Put(s.files, p, <<json_dumps(payload)>> \o old),
                  !.history_cache[room] = cache_append(s.history_cache[room], payload)]

\* append_history(room, payload)
append_history(s, room, payload) ==
    LET p == room_log_path(room)
        old == IF Has(s.files, p) THEN s.files[p] ELSE <<>>
    IN  [s EXCEPT !.files = Put(s.files, p, Append(old, json_dumps(payload))),
                  !.history_cache[room] = cache_append(s.history_cache[room], payload)]

(***************************************************************************)
(* Registry queries: src/server.py:74-89.  A sorted listing of a set is    *)
(* determined by the set, which is what the model keeps.                   *)
(***************************************************************************)
\* online_users()
online_users(s) == client_names(s.clients)

\* list_rooms(): the registry's rooms and the rooms that have a log file
list_rooms(s) == (DOMAIN s.rooms) \cup (DOMAIN s.files)

\* room_users(room)
room_users(s, room) == IF Has(s.rooms, room) THEN s.rooms[room] ELSE {}

\* user_rooms.get(username, "general")
current_room_of(s, username) ==
    IF Has(s.user_rooms, username) THEN s.user_rooms[username] ELSE GENERAL

\* A room switch that leaves the old room and never enters the new one.
join_room_no_add(s, username, new_room) ==
    LET s1 == ensure_room(s, new_room)
        old_room == current_room_of(s1, username)
    IN  IF old_room # new_room
        THEN LET r1 == IF Has(s1.rooms, old_room) THEN s1.rooms
                       ELSE Put(s1.rooms, old_room, {})
                 r2 == [r1 EXCEPT ![old_room] = @ \ {username}]
             IN  [s1 EXCEPT !.rooms = r2,
                            !.user_rooms = Put(s1.user_rooms, username, new_room)]
        ELSE s1

\* A room switch that enters the new room and never leaves the old one.
join_room_no_discard(s, username, new_room) ==
    LET s1 == ensure_room(s, new_room)
        old_room == current_room_of(s1, username)
    IN  IF old_room # new_room
        THEN LET r1 == IF Has(s1.rooms, old_room) THEN s1.rooms
                       ELSE Put(s1.rooms, old_room, {})
                 r3 == [r1 EXCEPT ![new_room] = @ \cup {username}]
             IN  [s1 EXCEPT !.rooms = r3,
                            !.user_rooms = Put(s1.user_rooms, username, new_room)]
        ELSE s1

\* join_room(username, new_room): the registry after the call
join_room(s, username, new_room) ==
    LET s1 == ensure_room(s, new_room)
        old_room == current_room_of(s1, username)
    IN  IF old_room # new_room
        THEN LET r1 == IF Has(s1.rooms, old_room) THEN s1.rooms
                       ELSE Put(s1.rooms, old_room, {})
                 r2 == [r1 EXCEPT ![old_room] = @ \ {username}]
                 r3 == [r2 EXCEPT ![new_room] = @ \cup {username}]
             IN  [s1 EXCEPT !.rooms = r3,
                            !.user_rooms = Put(s1.user_rooms, username, new_room)]
        ELSE s1

(***************************************************************************)
(* Events.  An entry of an inbox is an event as the client was sent it,    *)
(* with two observations the properties need and the client does not see:  *)
(* how it was sent (directly, by a history replay, by broadcast) and the   *)
(* time at which the sending handler read the frame it was working on.     *)
(***************************************************************************)
NoObj == [type |-> "none"]

Sent(obj, via, at) == [obj |-> obj, via |-> via, at |-> at]

ErrorEvent(message) == [type |-> "error", message |-> message]

\* The locals of a handler that is not in a loop of sends.
Locals(pc, username) ==
    [pc |-> pc, username |-> username, t0 |-> 0,
     it |-> <<>>, bobj |-> NoObj, broom |-> <<>>, bexcl |-> NoUser, k |-> "none",
     hroom |-> <<>>, hidx |-> 0, old_room |-> <<>>, new_room |-> <<>>]

\* The transport of ws is closed when the handler sends on it.
send_fails(s, ws) == ~s.open[ws] \/ ws \in s.drop

\* await send_json(ws, obj): the event reaches the client of an open
\* transport; on a closed one the send raises, which the caller handles.
send_json(s, ws, obj, via, at) ==
    IF send_fails(s, ws)
    THEN [s EXCEPT !.open[ws] = FALSE]
    ELSE [s EXCEPT !.inbox[ws] = Append(@, Sent(obj, via, at))]

Goto(s, c, pc) == [s EXCEPT !.conn[c].pc = pc]

\* ws_endpoint returns.  The inbox of a connection that is over is not
\* observed any more; the frame keeps what its last broadcast was called with.
Return(s0, c) ==
    Only({
        [s EXCEPT !.conn[c] = [Locals("done", s.conn[c].username) EXCEPT
                                  !.t0 = s.conn[c].t0, !.bobj = s.conn[c].bobj,
                                  !.broom = s.conn[c].broom,
                                  !.new_room = s.conn[c].new_room],
                  !.inbox[c] = <<>>]
        : s \in {s0}})

\* `raw = await ws.receive_text()` at the head of the loop (line 174)
WaitFrame(s, c) == [s EXCEPT !.conn[c] = Locals("recv", s.conn[c].username)]

(***************************************************************************)
(* broadcast (lines 92-101), send_history (104-107) and what follows each  *)
(* call of them in ws_endpoint.  A loop runs until its next await.         *)
(***************************************************************************)
\* A broadcast that does not filter by room.
skips_room_never(s, u, room) == FALSE

\* `if room and user_rooms.get(u) != room: continue`
skips_room(s, u, room) ==
    room # <<>> /\ (~Has(s.user_rooms, u) \/ s.user_rooms[u] # room)

\* `if exclude and u == exclude: continue`
skips_excluded(u, exclude) == exclude # NoUser /\ u = exclude

RECURSIVE broadcast_loop(_, _)
RECURSIVE after_broadcast(_, _)
RECURSIVE broadcast(_, _, _, _, _, _)

\* A broadcast that gives up at the first send that fails.
broadcast_loop_abort(s0, c) ==
    Only({
        LET l == s.conn[c]
        IN  IF l.it = <<>> THEN after_broadcast(s, c)
            ELSE LET item == Head(l.it)
                     s1 == [s EXCEPT !.conn[c].it = Tail(l.it)]
                     s2 == [s EXCEPT !.conn[c].it = <<>>]
                 IN  IF skips_excluded(item.u, l.bexcl) THEN broadcast_loop(s1, c)
                     ELSE IF skips_room(s, item.u, l.broom) THEN broadcast_loop(s1, c)
                     ELSE IF send_fails(s, item.ws)
                     THEN Goto(send_json(s2, item.ws, l.bobj, "bcast", l.t0), c, "bcast")
                     ELSE Goto(send_json(s1, item.ws, l.bobj, "bcast", l.t0), c, "bcast")
        : s \in {s0}})

\* The for loop of broadcast, from the item the iterator is at.
broadcast_loop(s0, c) ==
    Only({
        LET l == s.conn[c]
        IN  IF l.it = <<>> THEN after_broadcast(s, c)
            ELSE LET item == Head(l.it)
                     s1 == [s EXCEPT !.conn[c].it = Tail(l.it)]
                 IN  IF skips_excluded(item.u, l.bexcl) THEN broadcast_loop(s1, c)
                     ELSE IF skips_room(s, item.u, l.broom) THEN broadcast_loop(s1, c)
                     ELSE Goto(send_json(s1, item.ws, l.bobj, "bcast", l.t0), c, "bcast")
        : s \in {s0}})

\* broadcast(obj, room, exclude), called where ws_endpoint goes on at k
broadcast(s, c, obj, room, exclude, k) ==
    broadcast_loop(
        [s EXCEPT !.conn[c].it = s.clients, !.conn[c].bobj = obj,
                  !.conn[c].broom = room, !.conn[c].bexcl = exclude,
                  !.conn[c].k = k],
        c)

\* The statement after a call of broadcast: lines 173, 217-221, 243.
after_broadcast(s0, c) ==
    Only({
        LET l == s.conn[c]
        IN  CASE l.k = "loop" -> WaitFrame(s, c)
              [] l.k = "joined" ->
                    broadcast(s, c,
                        [type |-> "user_joined_room", username |-> l.username,
                         room |-> l.new_room, room_users |-> room_users(s, l.new_room)],
                        l.new_room, l.username, "loop")
              [] OTHER -> Return(s, c)
        : s \in {s0}})

\* A finally block that leaves the user in the member set of its room.
finally_no_discard(s0, c) ==
    Only({
        LET username == s.conn[c].username
        IN  IF username # NoUser
            THEN LET room == current_room_of(s, username)
                     s1 == [s EXCEPT !.clients = clients_pop(s.clients, username),
                                     !.user_rooms = Pop(s.user_rooms, username),
                                     !.now = s.now + 1, !.conn[c].t0 = s.now + 1]
                 IN  broadcast(s1, c,
                         [type |-> "user_left", username |-> username, room |-> room,
                          room_users |-> room_users(s1, room)],
                         room, NoUser, "exit")
            ELSE Return(s, c)
        : s \in {s0}})

\* The finally block of ws_endpoint, lines 230-243.  The clock has moved on
\* since the handler read its last frame.
finally_(s0, c) ==
    Only({
        LET username == s.conn[c].username
        IN  IF username # NoUser
            THEN LET room == current_room_of(s, username)
                     s1 == [s EXCEPT !.clients = clients_pop(s.clients, username),
                                     !.user_rooms = Pop(s.user_rooms, username),
                                     !.rooms = IF Has(s.rooms, room)
                                               THEN [s.rooms EXCEPT ![room] = @ \ {username}]
                                               ELSE s.rooms,
                                     !.now = s.now + 1, !.conn[c].t0 = s.now + 1]
                 IN  broadcast(s1, c,
                         [type |-> "user_left", username |-> username, room |-> room,
                          room_users |-> room_users(s1, room)],
                         room, NoUser, "exit")
            ELSE Return(s, c)
        : s \in {s0}})

\* await send_json(ws, obj) on the handler's own connection: a send that
\* raises is caught at lines 226-229 and the finally block runs.
reply(s0, c, obj, pc) ==
    Only({
        IF send_fails(s, c)
        THEN finally_([s EXCEPT !.open[c] = FALSE], c)
        ELSE Goto(send_json(s, c, obj, "direct", s.conn[c].t0), c, pc)
        : s \in {s0}})

\* The statement after send_history: lines 166-170 and 213-216.
after_history(s, c) ==
    LET l == s.conn[c]
    IN  IF l.k = "login"
        THEN broadcast(s, c,
                 [type |-> "user_joined", username |-> l.username, room |-> GENERAL,
                  room_users |-> room_users(s, GENERAL)],
                 GENERAL, l.username, "loop")
        ELSE broadcast(s, c,
                 [type |-> "user_left_room", username |-> l.username,
                  room |-> l.old_room, room_users |-> room_users(s, l.old_room)],
                 l.old_room, NoUser, "joined")

\* The for loop of send_history: the list iterator reads the list as it is
\* at each step (index hidx), not as it was when the loop began.
history_loop(s0, c) ==
    Only({
        LET l == s.conn[c]
            cache == s.history_cache[l.hroom]
        IN  IF l.hidx < Len(cache)
            THEN IF send_fails(s, c)
                 THEN finally_([s EXCEPT !.open[c] = FALSE], c)
                 ELSE Goto(send_json([s EXCEPT !.conn[c].hidx = l.hidx + 1], c,
                                     cache[l.hidx + 1], "replay", l.t0),
                           c, "replay")
            ELSE after_history([s EXCEPT !.conn[c].hroom = <<>>, !.conn[c].hidx = 0], c)
        : s \in {s0}})

\* send_history(ws, room), called where ws_endpoint goes on at k
send_history(s, c, room, k) ==
    history_loop(
        [ensure_room(s, room) EXCEPT !.conn[c].hroom = room, !.conn[c].hidx = 0,
                                     !.conn[c].k = k],
        c)

(***************************************************************************)
(* Inbound frames.  A frame is a JSON object or text that json.loads       *)
(* rejects; a field the object lacks reads as "" (`msg.get(f) or ""`).     *)
(***************************************************************************)
Frame(type, username, text, room) ==
    [json |-> TRUE, type |-> type, username |-> username, text |-> text, room |-> room]

InvalidFrame ==
    [json |-> FALSE, type |-> "", username |-> <<>>, text |-> <<>>, room |-> <<>>]

UserInputs == {<<"a">>, <<"b">>, <<" ", "a">>, <<" ">>}

TextInputs == {<<"h", "i">>, <<" ">>}

RoomInputs == {GENERAL, <<"!">>, <<" ">>}

\* The first frame a client sends.  User names are interchangeable, so the
\* client of c1 logs in as "a"; the client of c2 sends every kind of frame.
LoginFrames(c) ==
    IF c = "c1" THEN {Frame("login", <<"a">>, <<>>, <<>>)}
    ELSE {Frame("login", u, <<>>, <<>>) : u \in UserInputs}
            \cup {Frame("message", <<>>, <<"h", "i">>, <<>>), InvalidFrame}

LoopFrames ==
    {Frame("message", <<>>, x, <<>>) : x \in TextInputs}
        \cup {Frame("join_room", <<>>, <<>>, r) : r \in RoomInputs}
        \cup {Frame("rooms", <<>>, <<>>, <<>>), Frame("room_who", <<>>, <<>>, <<>>),
              Frame("ping", <<>>, <<>>, <<>>), InvalidFrame}

(***************************************************************************)
(* ws_endpoint, lines 127-243.                                             *)
(***************************************************************************)
\* A uniqueness check that looks the name up in the wrong dict.
username_taken_in_rooms(s, requested) == requested \in DOMAIN s.rooms

\* `if requested in clients:` (line 150)
username_taken(s, requested) == requested \in client_names(s.clients)

\* A refusal that has already taken the name: `username = requested` set
\* before the lookup, so that the finally block deregisters the name.
reject_in_use_named(s, c, requested) ==
    reply([s EXCEPT !.conn[c].username = requested], c, ErrorEvent("in_use"),
          "sent_in_use")

\* Lines 151-153: the duplicate login is refused.
reject_in_use(s, c, requested) ==
    reply(s, c, ErrorEvent("in_use"), "sent_in_use")

\* Lines 155-163: the session is registered and acknowledged.
register(s, c, requested) ==
    LET s1 == [s EXCEPT !.conn[c].username = requested,
                        !.clients = clients_set(s.clients, requested, c)]
        s2 == ensure_room(s1, GENERAL)
        s3 == [s2 EXCEPT !.rooms[GENERAL] = @ \cup {requested},
                         !.user_rooms = Put(s2.user_rooms, requested, GENERAL)]
    IN  reply(s3, c,
              [type |-> "login_ok", username |-> requested,
               users |-> online_users(s3), room |-> GENERAL],
              "login_ok_sent")

\* Lines 136-163: the first frame.
ws_login(s, c, msg) ==
    IF ~msg.json THEN finally_(s, c)
    ELSE IF msg.type # "login"
    THEN reply(s, c, ErrorEvent("need_login"), "sent_need_login")
    ELSE LET requested == strip(msg.username)
         IN  IF requested = <<>>
             THEN reply(s, c, ErrorEvent("empty_username"), "sent_empty")
             ELSE IF username_taken(s, requested)
             THEN reject_in_use(s, c, requested)
             ELSE register(s, c, requested)

\* A message handler that takes the text as sent, without `.strip()`.
on_message_no_strip(s, c, msg) ==
    LET username == s.conn[c].username
        current_room == current_room_of(s, username)
        text == msg.text
    IN  IF text = <<>> THEN WaitFrame(s, c)
        ELSE LET payload == [type |-> "message", from |-> username, text |-> text,
                             ts |-> s.now, room |-> current_room]
                 s1 == append_history(ensure_room(s, current_room), current_room, payload)
             IN  broadcast(s1, c, payload, current_room, NoUser, "loop")

\* Lines 179-193: a message frame.
on_message(s, c, msg) ==
    LET username == s.conn[c].username
        current_room == current_room_of(s, username)
        text == strip(msg.text)
    IN  IF text = <<>> THEN WaitFrame(s, c)
        ELSE LET payload == [type |-> "message", from |-> username, text |-> text,
                             ts |-> s.now, room |-> current_room]
                 s1 == append_history(ensure_room(s, current_room), current_room, payload)
             IN  broadcast(s1, c, payload, current_room, NoUser, "loop")

\* A join_room that takes the target as sent, without `.strip()`.
on_join_room_no_strip(s, c, msg) ==
    LET username == s.conn[c].username
        new_room == msg.room
    IN  IF new_room = <<>>
        THEN reply(s, c, ErrorEvent("need_room"), "reply_sent")
        ELSE LET old_room == current_room_of(ensure_room(s, new_room), username)
                 s1 == join_room(s, username, new_room)
                 s2 == [s1 EXCEPT !.conn[c].old_room = old_room,
                                  !.conn[c].new_room = new_room]
             IN  reply(s2, c, [type |-> "info", room |-> new_room], "info_sent")

\* Lines 201-210: a join_room frame, up to the confirmation.
on_join_room(s, c, msg) ==
    LET username == s.conn[c].username
        new_room == strip(msg.room)
    IN  IF new_room = <<>>
        THEN reply(s, c, ErrorEvent("need_room"), "reply_sent")
        ELSE LET old_room == current_room_of(ensure_room(s, new_room), username)
                 s1 == join_room(s, username, new_room)
                 s2 == [s1 EXCEPT !.conn[c].old_room = old_room,
                                  !.conn[c].new_room = new_room]
             IN  reply(s2, c, [type |-> "info", room |-> new_room], "info_sent")

\* Lines 174-224: one frame of the loop.
ws_loop(s, c, msg) ==
    IF ~msg.json THEN finally_(s, c)
    ELSE LET current_room == current_room_of(s, s.conn[c].username)
         IN  CASE msg.type = "message" -> on_message(s, c, msg)
               [] msg.type = "rooms" ->
                     reply(s, c, [type |-> "rooms", rooms |-> list_rooms(s)], "reply_sent")
               [] msg.type = "room_who" ->
                     reply(s, c,
                           [type |-> "room_users", room |-> current_room,
                            room_users |-> room_users(s, current_room)],
                           "reply_sent")
               [] msg.type = "join_room" -> on_join_room(s, c, msg)
               [] OTHER -> reply(s, c, ErrorEvent("unsupported"), "reply_sent")

\* time.time() advances as a frame is read; t0 is the reading of this frame.
Tick(s, c) == [s EXCEPT !.now = s.now + 1, !.conn[c].t0 = s.now + 1]

(***************************************************************************)
(* Actions: one per await of ws_endpoint.  A client may drop its           *)
(* connection at any time; the server meets the closed transport at the    *)
(* next await on it (a send that raises, a receive that raises             *)
(* WebSocketDisconnect), which is where the model lets the client go.      *)
(***************************************************************************)
Drops == {{}} \cup {{w} : w \in Conns}

\* The step to state t, in which the transports of drop were met closed.
Takes(drop, t) ==
    \E s \in {t} :
        /\ \A w \in drop : open[w] /\ ~s.open[w]
        /\ Becomes(s)

\* `await ws.accept()` (line 129), outside the try block
Accept(c) ==
    /\ conn[c].pc = "accept"
    /\ \E drop \in {{}, {c}} :
          Takes(drop, IF c \in drop
                      THEN Return([State(drop) EXCEPT !.open[c] = FALSE], c)
                      ELSE Goto(State(drop), c, "recv_login"))

\* Line 136 returns the first frame.
ReceiveLogin(c) ==
    /\ conn[c].pc = "recv_login"
    /\ open[c]
    /\ now < MaxNow
    /\ \E msg \in LoginFrames(c), drop \in Drops :
          Takes(drop, ws_login(Tick(State(drop), c), c, msg))

\* Line 174 returns a frame, one of frames.
ReceiveFrame(c, frames) ==
    /\ conn[c].pc = "recv"
    /\ open[c]
    /\ now < MaxNow
    /\ \E msg \in frames, drop \in Drops :
          Takes(drop, ws_loop(Tick(State(drop), c), c, msg))

ReceiveLoop(c) == ReceiveFrame(c, LoopFrames)

\* receive_text raises WebSocketDisconnect (lines 136, 174, 226).
Disconnected(c) ==
    \E drop \in Drops :
        Takes(drop \ {c}, finally_([State(drop \ {c}) EXCEPT !.open[c] = FALSE], c))

\* The client drops the connection while the handler waits for a frame.
ReceiveDisconnect(c) ==
    /\ conn[c].pc \in {"recv_login", "recv"}
    /\ open[c]
    /\ Disconnected(c)

\* The handler waits for a frame on a transport that a send has met closed.
ReceiveClosed(c) ==
    /\ conn[c].pc \in {"recv_login", "recv"}
    /\ ~open[c]
    /\ Disconnected(c)

\* `await ws.close()` after a login error (lines 141, 147, 152)
AfterLoginError(c) ==
    /\ conn[c].pc \in {"sent_need_login", "sent_empty", "sent_in_use"}
    /\ Becomes([Goto(State({}), c, "closing") EXCEPT !.open[c] = FALSE])

\* `return` after ws.close() (lines 142, 148, 153), then the finally block
AfterClose(c) ==
    /\ conn[c].pc = "closing"
    /\ Becomes(finally_(State({}), c))

\* Line 164, after login_ok was sent
AfterLoginOk(c) ==
    /\ conn[c].pc = "login_ok_sent"
    /\ \E drop \in Drops : Takes(drop, send_history(State(drop), c, GENERAL, "login"))

\* Line 211, after the join confirmation was sent
AfterInfo(c) ==
    /\ conn[c].pc = "info_sent"
    /\ \E drop \in Drops :
          Takes(drop, send_history(State(drop), c, conn[c].new_room, "join"))

\* send_history resumes after a send (line 107).
ReplayNext(c) ==
    /\ conn[c].pc = "replay"
    /\ \E drop \in Drops : Takes(drop, history_loop(State(drop), c))

\* broadcast resumes after a send (lines 99-101).
BroadcastNext(c) ==
    /\ conn[c].pc = "bcast"
    /\ \E drop \in Drops : Takes(drop, broadcast_loop(State(drop), c))

\* The loop goes on after a reply (lines 196, 199, 204-205, 224).
AfterReply(c) ==
    /\ conn[c].pc = "reply_sent"
    /\ Becomes(WaitFrame(State({}), c))

\* The log files the server finds when it starts.
OldRecord(n) ==
    [type |-> "message", from |-> <<"b">>, text |-> <<"h", "i">>, ts |-> 0 - n,
     room |-> GENERAL]

InitFiles ==
    {[p \in {GENERAL} |-> <<json_dumps(OldRecord(1))>>]}

Init ==
    /\ clients = <<>>
    /\ user_rooms = EmptyDict
    /\ rooms = [r \in {GENERAL} |-> {}]
    /\ history_cache = EmptyDict
    /\ files \in InitFiles
    /\ conn = [c \in Conns |-> Locals("accept", NoUser)]
    /\ open = [c \in Conns |-> TRUE]
    /\ inbox = [c \in Conns |-> <<>>]
    /\ now = 0

\* The steps a handler takes without a new frame from its client.
Resume(c) ==
    \/ Accept(c)
    \/ ReceiveClosed(c)
    \/ AfterLoginError(c)
    \/ AfterClose(c)
    \/ AfterLoginOk(c)
    \/ AfterInfo(c)
    \/ ReplayNext(c)
    \/ BroadcastNext(c)
    \/ AfterReply(c)

Step(c) ==
    \/ Resume(c)
    \/ ReceiveLogin(c)
    \/ ReceiveLoop(c)
    \/ ReceiveDisconnect(c)

Next == \E c \in Conns : Step(c)

Spec == Init /\ [][Next]_vars

(***************************************************************************)
(* The same handlers under the event loop's scheduling: a handler that can *)
(* resume is resumed.  Clients send the frames that change the registry.   *)
(***************************************************************************)
LiveFrames ==
    {Frame("message", <<>>, <<"h", "i">>, <<>>), Frame("join_room", <<>>, <<>>, <<"!">>),
     Frame("ping", <<>>, <<>>, <<>>), InvalidFrame}

LiveReceiveLoop(c) == ReceiveFrame(c, LiveFrames)

LiveStep(c) ==
    \/ Resume(c)
    \/ ReceiveLogin(c)
    \/ LiveReceiveLoop(c)
    \/ ReceiveDisconnect(c)

LiveNext == \E c \in Conns : LiveStep(c)

LiveSpec == Init /\ [][LiveNext]_vars /\ \A c \in Conns : WF_vars(Resume(c))

(***************************************************************************)
(* The history store on its own: rooms are referenced and records are      *)
(* appended, as ws_endpoint does at lines 191-192, with no connection.     *)
(* The n-th record appended to a room carries ts = n.                      *)
(***************************************************************************)
HistRooms == {GENERAL, <<"d">>}

HistRecord(room, n) ==
    [type |-> "message", from |-> <<"a">>, text |-> <<"h", "i">>, ts |-> n,
     room |-> room]

\* A log left by an earlier run: one record more than the cache holds.
OldLog(room) ==
    [i \in 1..(MAX_HISTORY + 1) |-> json_dumps(HistRecord(room, i - (MAX_HISTORY + 1)))]

\* The number of records this run has appended to the log of room.
Appended(room) ==
    LET p == room_log_path(room)
    IN  IF Has(files, p)
        THEN Cardinality({i \in 1..Len(files[p]) : json_loads(files[p][i]).ts > 0})
        ELSE 0

HistInit ==
    /\ clients = <<>>
    /\ user_rooms = EmptyDict
    /\ rooms = [r \in {GENERAL} |-> {}]
    /\ history_cache = EmptyDict
    /\ files \in {EmptyDict, [p \in {<<"d">>} |-> OldLog(<<"d">>)]}
    /\ conn = [c \in Conns |-> Locals("accept", NoUser)]
    /\ open = [c \in Conns |-> TRUE]
    /\ inbox = [c \in Conns |-> <<>>]
    /\ now = 0

\* ensure_room(room) on the first reference to room
EnsureRoom(room) ==
    /\ ~Has(history_cache, room)
    /\ Becomes(ensure_room(State({}), room))

\* append_history(room, payload) for a room that ensure_room has prepared
AppendHistory(room) ==
    /\ Has(history_cache, room)
    /\ Appended(room) < MaxAppends
    /\ Becomes(append_history(State({}), room, HistRecord(room, Appended(room) + 1)))

HistNext == \E room \in HistRooms : EnsureRoom(room) \/ AppendHistory(room)

HistSpec == HistInit /\ [][HistNext]_vars

(***************************************************************************)
(* load_history on its own: the server starts on a log that may hold blank *)
(* and malformed lines, and the first reference to the room loads it.      *)
(***************************************************************************)
\* A line that json.loads rejects, and a line of whitespace.
MalformedLine == <<"bad", NoObj>>

BlankLine == <<"blank", NoObj>>

LineKinds ==
    {json_dumps(OldRecord(1)), json_dumps(OldRecord(2)), MalformedLine, BlankLine}

\* The logs of at most MaxLines lines.
ShortLogs == UNION {[1..n -> LineKinds] : n \in 0..MaxLines}

\* A log of MAX_HISTORY + 1 lines: MAX_HISTORY records and the line ln at
\* position k.
LongLog(ln, k) ==
    [i \in 1..(MAX_HISTORY + 1) |->
        IF i = k THEN ln ELSE json_dumps(OldRecord(MAX_HISTORY + 2 - i))]

LongLogs == {LongLog(ln, k) : ln \in LineKinds, k \in {1, 2}}

LoadInit ==
    /\ clients = <<>>
    /\ user_rooms = EmptyDict
    /\ rooms = [r \in {GENERAL} |-> {}]
    /\ history_cache = EmptyDict
    /\ files \in {EmptyDict} \cup {[p \in {GENERAL} |-> log] : log \in ShortLogs \cup LongLogs}
    /\ conn = [c \in Conns |-> Locals("accept", NoUser)]
    /\ open = [c \in Conns |-> TRUE]
    /\ inbox = [c \in Conns |-> <<>>]
    /\ now = 0

LoadNext == EnsureRoom(GENERAL)

LoadSpec == LoadInit /\ [][LoadNext]_vars

(***************************************************************************)
(* Vocabulary of the properties.                                           *)
(***************************************************************************)
\* The handler of c is in the Active state: logged in and not yet in its
\* finally block.
Active(c) ==
    /\ conn[c].username # NoUser
    /\ conn[c].pc # "done"
    /\ ~(conn[c].pc = "bcast" /\ conn[c].k = "exit")

\* The handler of c is in the broadcast of its finally block.
Leaving(c) == conn[c].pc = "bcast" /\ conn[c].k = "exit"

\* The session registered for connection c, if any, is registered under u.
Registered(c) == ws_of(clients, conn[c].username) = c

Last(seq) == seq[Len(seq)]

\* The number of entries of an inbox that carry the event obj.
RECURSIVE Count(_, _)
Count(box, obj) ==
    IF box = <<>> THEN 0
    ELSE (IF Head(box).obj = obj THEN 1 ELSE 0) + Count(Tail(box), obj)

\* The records this run of the server has written to the log files.
Written ==
    UNION {{json_loads(files[p][i]) : i \in 1..Len(files[p])} : p \in DOMAIN files}

Accepted == {m \in Written : m.ts > 0}

\* The index of the last login_ok or info event of an inbox, 0 if none:
\* where the client last entered a room.
EnteredIdx(box) ==
    LET marks == {i \in 1..Len(box) : box[i].obj.type \in {"login_ok", "info"}}
    IN  IF marks = {} THEN 0 ELSE CHOOSE i \in marks : \A j \in marks : j <= i

\* c holds a session that has been in room since before time ts.
InRoomSince(c, room, ts) ==
    /\ Active(c) /\ Registered(c) /\ open[c]
    /\ Has(user_rooms, conn[c].username)
    /\ user_rooms[conn[c].username] = room
    /\ EnteredIdx(inbox[c]) > 0
    /\ inbox[c][EnteredIdx(inbox[c])].at < ts

\* Broadcast has delivered the event obj to the client of c.
GotByBroadcast(c, obj) ==
    \E i \in 1..Len(inbox[c]) : inbox[c][i].obj = obj /\ inbox[c][i].via = "bcast"

RegistryUnchanged ==
    /\ clients' = clients
    /\ user_rooms' = user_rooms
    /\ rooms' = rooms

(***************************************************************************)
(* C1.  At most one handler is Active for a username, under every          *)
(* interleaving: two Active handlers never hold the same username, an      *)
(* Active handler is the one its username is registered to, and no name is *)
(* registered twice.                                                       *)
(***************************************************************************)
C1_OneSessionPerUsername ==
    /\ \A c, d \in Conns :
          (Active(c) /\ Active(d) /\ conn[c].username = conn[d].username) => c = d
    /\ \A c \in Conns : Active(c) => Registered(c)
    /\ \A i, j \in 1..Len(clients) : clients[i].u = clients[j].u => i = j

\* A login was refused as a duplicate while the holder of the name is Active.
C1_Witness ==
    \E c, d \in Conns :
        /\ c # d
        /\ Active(c)
        /\ conn[d].pc = "sent_in_use"
        /\ inbox[d] # <<>> /\ Last(inbox[d]).obj = ErrorEvent("in_use")

(***************************************************************************)
(* C2.  In every state, every username with an active session has a room:  *)
(* user_rooms[u] is defined, is a key of rooms, and that room's member set *)
(* contains u.                                                             *)
(***************************************************************************)
C2_UserRoomConsistent ==
    \A u \in client_names(clients) :
        /\ Has(user_rooms, u)
        /\ Has(rooms, user_rooms[u])
        /\ u \in rooms[user_rooms[u]]

\* A user sits in a room it joined while the other session is being cleaned up.
C2_Witness ==
    \E c, d \in Conns :
        /\ c # d
        /\ Active(c) /\ Registered(c)
        /\ Has(user_rooms, conn[c].username)
        /\ user_rooms[conn[c].username] = <<"!">>
        /\ conn[d].pc = "bcast" /\ conn[d].k = "exit"

(***************************************************************************)
(* C3.  A login with a username that is in use is answered with the        *)
(* "in use" error and changes nothing in the registry: not in the step     *)
(* that refuses it and not in the steps that close the refused connection  *)
(* and run its finally block; the session that holds the name stays        *)
(* Active and registered.                                                  *)
(***************************************************************************)
C3_DuplicateLoginRefused ==
    [][\A c \in Conns :
          /\ (conn[c].pc = "recv_login" /\ conn'[c].pc = "sent_in_use") =>
                /\ RegistryUnchanged
                /\ Last(inbox'[c]).obj = ErrorEvent("in_use")
                /\ \E d \in Conns \ {c} :
                      /\ Active(d) /\ Registered(d)
                      /\ conn'[d] = conn[d]
                      /\ ws_of(clients', conn'[d].username) = d
          /\ (conn[c].pc \in {"sent_in_use", "closing"} /\ conn'[c] # conn[c]) =>
                /\ RegistryUnchanged
                /\ conn'[c].pc \in {"closing", "done"}
                /\ conn'[c].pc = "done" => conn'[c].username = NoUser
      ]_vars

\* The refused connection is closing while the holder of the name is Active
\* in a room it has joined since.
C3_Witness ==
    \E c, d \in Conns :
        /\ conn[c].pc = "closing"
        /\ inbox[c] # <<>> /\ Last(inbox[c]).obj = ErrorEvent("in_use")
        /\ Active(d) /\ Registered(d)

\* The room user_rooms holds for the user of c when its finally block runs:
\* the room of a join_room this step has made, else the room it was in.
C4_LastRoom(c) ==
    IF conn'[c].new_room # <<>> THEN conn'[c].new_room
    ELSE current_room_of(State({}), conn[c].username)

\* The step in which c leaves the Active state deregisters its user and
\* builds the user_left event.
C4_Deregistered(c) ==
    (Active(c) /\ ~Active(c)') =>
        LET u == conn[c].username
            room == C4_LastRoom(c)
        IN  /\ u \notin client_names(clients')
            /\ ~Has(user_rooms', u)
            /\ \A r \in DOMAIN rooms' : u \notin rooms'[r]
            /\ conn'[c].broom = room
            /\ conn'[c].bobj =
                  [type |-> "user_left", username |-> u, room |-> room,
                   room_users |-> rooms'[room]]

\* When the handler of c returns, the sessions that were in the room all
\* along hold the user_left event.
C4_Notified(c) ==
    ((Active(c) \/ Leaving(c)) /\ conn'[c].pc = "done") =>
        \E room \in {conn'[c].broom}, since \in {conn'[c].t0},
           left \in {conn'[c].bobj} :
            \A d \in Conns \ {c} :
                InRoomSince(d, room, since)' => (Count(inbox[d], left) >= 1)'

(***************************************************************************)
(* C4.  When the session of user A ends, its cleanup runs: a handler whose *)
(* transport was met closed reaches the end of ws_endpoint; the step that  *)
(* leaves the Active state removes A from clients, from user_rooms and     *)
(* from every member set and prepares a user_left event that names A and   *)
(* A's last room; and when the handler ends, every session that has been   *)
(* in that room since before the cleanup, on a transport that never        *)
(* failed, has been sent that event.                                       *)
(***************************************************************************)
C4_CleanupOnSessionEnd ==
    /\ \A c \in Conns : (Active(c) /\ ~open[c]) ~> (conn[c].pc = "done")
    /\ [][\A c \in Conns : C4_Deregistered(c) /\ C4_Notified(c)]_vars

\* A session has ended and its handler has returned, and the session that
\* stayed in the room holds the user_left event that names the one that left.
C4_Witness ==
    \E c, d \in Conns :
        /\ c # d
        /\ conn[c].pc = "done" /\ conn[c].username # NoUser
        /\ Active(d) /\ Registered(d) /\ open[d]
        /\ \E i \in 1..Len(inbox[d]) :
              /\ inbox[d][i].via = "bcast"
              /\ inbox[d][i].obj.type = "user_left"
              /\ inbox[d][i].obj.username = conn[c].username
              /\ inbox[d][i].obj.room = user_rooms[conn[d].username]
        /\ conn[c].username \notin client_names(clients)

\* No handler is in the middle of broadcasting m.
BroadcastOver(m) == \A c \in Conns : ~(conn[c].pc = "bcast" /\ conn[c].bobj = m)

\* The log of m's room holds m on exactly one line.
LoggedOnce(m) ==
    LET lines == files[room_log_path(m.room)]
    IN  Cardinality({i \in 1..Len(lines) : lines[i] = json_dumps(m)}) = 1

(***************************************************************************)
(* C5.  Once the broadcast of an accepted message m is over, the log of    *)
(* m's room holds m exactly once, and every connection that holds a        *)
(* session which entered m's room before m was accepted, is still in it,   *)
(* and whose transport never failed, has been sent m exactly once.         *)
(***************************************************************************)
C5_DeliveredExactlyOnce ==
    \A m \in Accepted :
        /\ LoggedOnce(m)
        /\ BroadcastOver(m) =>
              \A c \in Conns : InRoomSince(c, m.room, m.ts) => Count(inbox[c], m) = 1

(***************************************************************************)
(* C6.  Room isolation: whenever broadcast delivers a message event to a   *)
(* connection that holds a session, the room of that session at that       *)
(* moment is the room the message was sent in.                             *)
(***************************************************************************)
C6_RoomIsolation ==
    [][\A c \in Conns :
          (/\ Len(inbox'[c]) = Len(inbox[c]) + 1
           /\ Last(inbox'[c]).via = "bcast"
           /\ Last(inbox'[c]).obj.type = "message") =>
              LET u == conn'[c].username
              IN  ws_of(clients', u) = c =>
                     /\ Has(user_rooms', u)
                     /\ user_rooms'[u] = Last(inbox'[c]).obj.room
      ]_vars

\* A session in another room sent a message that its own client received,
\* and the session that stayed in "general" did not.
C6_Witness ==
    \E c, d \in Conns :
        /\ c # d
        /\ Active(c) /\ Registered(c) /\ Active(d) /\ Registered(d)
        /\ conn[c].pc = "recv" /\ conn[d].pc = "recv"
        /\ user_rooms[conn[c].username] = GENERAL
        /\ user_rooms[conn[d].username] = <<"!">>
        /\ \E i \in 1..Len(inbox[d]) :
              /\ inbox[d][i].via = "bcast"
              /\ inbox[d][i].obj.type = "message"
              /\ inbox[d][i].obj.from = conn[d].username
              /\ inbox[d][i].obj.room = <<"!">>
              /\ Count(inbox[c], inbox[d][i].obj) = 0

(***************************************************************************)
(* C7.  After a join_room to room R, the client receives the whole replay  *)
(* of R's history before any broadcast event of R: in the events sent      *)
(* since the last join confirmation, no replayed record follows an event   *)
(* that broadcast delivered for R.                                         *)
(***************************************************************************)
C7_ReplayBeforeBroadcast ==
    \A c \in Conns :
        LET box == inbox[c]
            k == EnteredIdx(box)
        IN  (k > 0 /\ box[k].obj.type = "info") =>
               \A i, j \in (k + 1)..Len(box) :
                   (i < j /\ box[i].via = "bcast" /\ box[i].obj.room = box[k].obj.room)
                       => box[j].via # "replay"

\* The log of room held no record when the server started.
StartedEmpty(room) ==
    LET p == room_log_path(room)
    IN  ~Has(files, p) \/ \A i \in 1..Len(files[p]) : json_loads(files[p][i]).ts > 0

(***************************************************************************)
(* C8.  No cache holds more than MAX_HISTORY entries; and for a room whose *)
(* log started empty, after N appends the cache holds min(N, MAX_HISTORY)  *)
(* entries, which are the last ones appended, in append order: its i-th    *)
(* entry is the record appended as number N - min(N, MAX_HISTORY) + i.     *)
(***************************************************************************)
C8_CacheHoldsLastFifty ==
    \A room \in DOMAIN history_cache :
        LET cache == history_cache[room]
            n == Appended(room)
            kept == IF n <= MAX_HISTORY THEN n ELSE MAX_HISTORY
        IN  /\ Len(cache) <= MAX_HISTORY
            /\ StartedEmpty(room) =>
                  /\ Len(cache) = kept
                  /\ \A i \in 1..kept : cache[i] = HistRecord(room, n - kept + i)

\* More than MAX_HISTORY records were appended to a log that started empty,
\* and the oldest ones are gone from the cache.
C8_Witness ==
    \E room \in DOMAIN history_cache :
        /\ StartedEmpty(room)
        /\ Appended(room) = MAX_HISTORY + 2
        /\ Len(history_cache[room]) = MAX_HISTORY
        /\ history_cache[room][1].ts = 3

\* The last MAX_HISTORY records of the log file of room, parsed.
LogTail(room) ==
    LET p == room_log_path(room)
        lines == IF Has(files, p) THEN LastN(files[p], MAX_HISTORY) ELSE <<>>
    IN  [i \in 1..Len(lines) |-> json_loads(lines[i])]

(***************************************************************************)
(* C9.  The history cache of every room that has one equals the tail (the  *)
(* last MAX_HISTORY records, in order) of the room's log file.             *)
(***************************************************************************)
C9_CacheIsLogTail ==
    \A room \in DOMAIN history_cache : history_cache[room] = LogTail(room)

\* name is what room_log_path would make of it.
Sanitized(name) ==
    /\ name # <<>>
    /\ \A i \in 1..Len(name) : isalnum(name[i]) \/ name[i] \in {"-", "_"}

\* Every room name the server holds in memory or in a record.
RegistryRoomNames ==
    (DOMAIN rooms) \cup {user_rooms[u] : u \in DOMAIN user_rooms}
        \cup {m.room : m \in Written}
        \cup UNION {{history_cache[r][i].room : i \in 1..Len(history_cache[r])} :
                       r \in DOMAIN history_cache}

(***************************************************************************)
(* C10.  Every room name the registry holds (a key of rooms, a value of    *)
(* user_rooms, the room of a stored record) is a sanitized name: not       *)
(* empty, and made of alphanumeric characters, "-" and "_" only.           *)
(***************************************************************************)
C10_RoomNamesSanitized == \A name \in RegistryRoomNames : Sanitized(name)

\* The well-formed records among the last MAX_HISTORY lines of the log of
\* room, in file order.
WellFormedTail(room) ==
    LET p == room_log_path(room)
        lines == IF Has(files, p) THEN LastN(files[p], MAX_HISTORY) ELSE <<>>
        good == SelectSeq(lines, json_ok)
    IN  [i \in 1..Len(good) |-> json_loads(good[i])]

(***************************************************************************)
(* C11.  load_history skips malformed lines: the cache it fills holds the  *)
(* well-formed records among the last MAX_HISTORY lines of the log, in     *)
(* order, and is empty only when there is none.                            *)
(***************************************************************************)
C11_LoadSkipsMalformed ==
    \A room \in DOMAIN history_cache : history_cache[room] = WellFormedTail(room)

\* A broadcast of c that is not the one of its finally block goes on or
\* returns to the loop, whatever its sends met: c stays Active, no session
\* is deregistered and no other handler moves.
C12_NotRaised(c) ==
    (conn[c].pc = "bcast" /\ conn[c].k # "exit" /\ conn'[c] # conn[c]) =>
        /\ Active(c)'
        /\ conn'[c].pc \in {"bcast", "recv"}
        /\ RegistryUnchanged
        /\ \A d \in Conns \ {c} : conn'[d] = conn[d]

\* When a broadcast of c is over, every connection that has been in the
\* room of the broadcast since before it, is not the one excluded and whose
\* transport never failed, holds the event.
C12_AllReached(c) ==
    (conn[c].pc = "bcast" /\ (conn'[c].pc # "bcast" \/ conn'[c].bobj # conn[c].bobj)) =>
        \E room \in {conn[c].broom}, since \in {conn[c].t0}, obj \in {conn[c].bobj},
           exclude \in {conn[c].bexcl} :
            \A d \in Conns :
                (InRoomSince(d, room, since) /\ conn[d].username # exclude)'
                    => GotByBroadcast(d, obj)'

(***************************************************************************)
(* C12.  Broadcast is best-effort per recipient: a send that fails is not  *)
(* raised to the broadcasting handler, which stays Active and returns to   *)
(* its loop, ends no other session, and does not keep the event from the   *)
(* recipients that follow.                                                 *)
(***************************************************************************)
C12_BroadcastBestEffort ==
    [][\A c \in Conns : C12_NotRaised(c) /\ C12_AllReached(c)]_vars

\* The transport of the first registered user failed, its handler is still
\* Active, and the user registered after it holds a message that was
\* broadcast to both and that the first never got.
C12_Witness ==
    \E c, d \in Conns :
        /\ Len(clients) = 2 /\ clients[1].ws = c /\ clients[2].ws = d
        /\ Active(c) /\ ~open[c] /\ conn[c].pc = "recv"
        /\ Active(d) /\ open[d] /\ conn[d].pc = "recv"
        /\ user_rooms[conn[c].username] = user_rooms[conn[d].username]
        /\ \E i \in 1..Len(inbox[d]) :
              LET m == inbox[d][i].obj
              IN  /\ inbox[d][i].via = "bcast" /\ m.type = "message"
                  /\ m.room = user_rooms[conn[c].username]
                  /\ EnteredIdx(inbox[c]) > 0
                  /\ inbox[c][EnteredIdx(inbox[c])].at < m.ts
                  /\ Count(inbox[c], m) = 0

\* No event reaches a connection other than c in this step.
OthersSentNothing(c) == \A d \in Conns \ {c} : inbox'[d] = inbox[d]

(***************************************************************************)
(* C13.  A first frame that is not a valid login registers nothing: the    *)
(* handler sends its client an error event, unless the transport has       *)
(* failed, and goes on to close the connection and end, and in none of     *)
(* these steps does the registry change or another session get an event.   *)
(***************************************************************************)
C13_InvalidLoginRefused ==
    [][\A c \in Conns :
          /\ (/\ conn[c].pc = "recv_login" /\ conn'[c] # conn[c]
              /\ conn'[c].username = NoUser /\ open'[c]) =>
                /\ conn'[c].pc \in {"sent_need_login", "sent_empty", "sent_in_use"}
                /\ inbox'[c] # <<>> /\ Last(inbox'[c]).obj.type = "error"
                /\ Last(inbox'[c]).via = "direct"
                /\ RegistryUnchanged
                /\ OthersSentNothing(c)
          /\ (/\ conn[c].pc \in {"sent_need_login", "sent_empty", "sent_in_use", "closing"}
              /\ conn'[c] # conn[c]) =>
                /\ conn'[c].pc \in {"closing", "done"}
                /\ conn'[c].username = NoUser
                /\ RegistryUnchanged
                /\ OthersSentNothing(c)
      ]_vars

\* The frames of the loop that violate the protocol: a join_room whose target
\* is empty after trimming, and a frame of a type the loop does not know.
ViolationFrames ==
    {f \in LoopFrames :
        /\ f.json
        /\ \/ f.type = "join_room" /\ strip(f.room) = <<>>
           \/ f.type \notin {"message", "rooms", "room_who", "join_room"}}

\* Nothing the server stores changes in this step.
StoresUnchanged ==
    /\ RegistryUnchanged
    /\ history_cache' = history_cache
    /\ files' = files

(***************************************************************************)
(* C14.  A protocol violation in the loop does not end the session: the    *)
(* handler that reads such a frame on a transport that has not failed      *)
(* sends its client one error event and returns to the head of its loop,   *)
(* still Active in the same room; the registry, the caches and the logs    *)
(* are unchanged and no other connection is sent anything.                 *)
(***************************************************************************)
C14_ViolationKeepsSession ==
    [][\A c \in Conns :
          /\ (ReceiveFrame(c, ViolationFrames) /\ open'[c]) =>
                /\ conn'[c].pc = "reply_sent"
                /\ inbox'[c] = Append(inbox[c], Last(inbox'[c]))
                /\ Last(inbox'[c]).obj.type = "error"
                /\ Active(c)' /\ Registered(c)'
                /\ StoresUnchanged
                /\ OthersSentNothing(c)
          /\ (conn[c].pc = "reply_sent" /\ conn'[c] # conn[c]) =>
                /\ conn'[c].pc = "recv"
                /\ Active(c)' /\ Registered(c)'
                /\ StoresUnchanged
                /\ inbox' = inbox
      ]_vars

\* A session that had moved to another room was answered with the error for
\* an empty join target, while the other session is Active.
C14_Witness ==
    \E c, d \in Conns :
        /\ c # d
        /\ conn[c].pc = "reply_sent" /\ Active(c) /\ open[c]
        /\ Last(inbox[c]).obj = ErrorEvent("need_room")
        /\ user_rooms[conn[c].username] = <<"!">>
        /\ conn[c].username \in rooms[<<"!">>]
        /\ Active(d) /\ Registered(d)

\* The message frames whose text is empty after trimming.
BlankMessages == {f \in LoopFrames : f.json /\ f.type = "message" /\ strip(f.text) = <<>>}

(***************************************************************************)
(* C15.  A message whose text is empty after trimming is ignored: the step *)
(* that reads it changes no log, no cache and no registry entry, sends     *)
(* nothing to any connection, meets no transport, and leaves the handler   *)
(* Active at the head of its loop.                                         *)
(***************************************************************************)
C15_BlankMessageIgnored ==
    [][\A c \in Conns :
          ReceiveFrame(c, BlankMessages) =>
              /\ StoresUnchanged
              /\ inbox' = inbox
              /\ open' = open
              /\ conn'[c].pc = "recv"
              /\ Active(c)' /\ Registered(c)'
              /\ \A d \in Conns \ {c} : conn'[d] = conn[d]
      ]_vars

\* The first connection has logged in and has read one more frame, which
\* left no trace: no reply, no record, no room, and the session goes on.
C15_Witness ==
    /\ conn["c2"].pc = "accept"
    /\ conn["c1"].pc = "recv" /\ Active("c1") /\ open["c1"]
    /\ now = 2
    /\ Len(inbox["c1"]) = 2 /\ Last(inbox["c1"]).via = "replay"
    /\ Accepted = {}
    /\ DOMAIN rooms = {GENERAL}

\* The records of seq carry increasing times: they are in the order in which
\* they were accepted.
InAcceptOrder(seq) == \A i, j \in 1..Len(seq) : i < j => seq[i].ts < seq[j].ts

\* Every line of every log is one whole record, the logs and the caches are
\* in the order of acceptance, and a cache holds an accepted record only if
\* the log of its room holds it.
C16_Ordered ==
    /\ \A p \in DOMAIN files :
          /\ \A i \in 1..Len(files[p]) : json_ok(files[p][i])
          /\ InAcceptOrder([i \in 1..Len(files[p]) |-> json_loads(files[p][i])])
    /\ \A room \in DOMAIN history_cache :
          /\ InAcceptOrder(history_cache[room])
          /\ \A i \in 1..Len(history_cache[room]) :
                LET m == history_cache[room][i]
                IN  m.ts > 0 =>
                       \E k \in 1..Len(files[room_log_path(room)]) :
                           files[room_log_path(room)][k] = json_dumps(m)

\* A step that writes to a log accepts one message: it appends one line to
\* the end of the log of the message's room and the same record to the end
\* of that room's cache, and touches no other log and no other cache.
C16_OneStep ==
    (files' # files) =>
        \E m \in Accepted' :
            LET p == room_log_path(m.room)
                old == IF Has(files, p) THEN files[p] ELSE <<>>
            IN  /\ m.ts = now'
                /\ m \notin Accepted
                /\ files' = Put(files, p, Append(old, json_dumps(m)))
                /\ Has(history_cache, m.room)
                /\ history_cache' =
                      [history_cache EXCEPT ![m.room] = LastN(Append(@, m), MAX_HISTORY)]

(***************************************************************************)
(* C16.  Each accepted message is committed to the log and to the cache in *)
(* one step of its handler, so that under every interleaving the records   *)
(* of a log are whole and in the order of acceptance, and the cache holds  *)
(* them in that order.                                                     *)
(***************************************************************************)
C16_CommitIsAtomic ==
    /\ []C16_Ordered
    /\ [][C16_OneStep /\ (history_cache' # history_cache =>
                             \A r \in DOMAIN history_cache :
                                 /\ Has(history_cache', r)
                                 /\ \/ history_cache'[r] = history_cache[r]
                                    \/ files' # files)]_vars

\* Two sessions have each sent a message to "general" while the handler of
\* the first message was still broadcasting it, and the log and the cache
\* hold the two records in that order.
C16_Witness ==
    \E c, d \in Conns :
        LET log == files[GENERAL]
            cache == history_cache[GENERAL]
            n == Len(log)
        IN  /\ c # d
            /\ n >= 3 /\ Len(cache) = n
            /\ json_loads(log[n - 1]).from = conn[c].username
            /\ json_loads(log[n]).from = conn[d].username
            /\ json_loads(log[n - 1]).ts > 0
            /\ cache[n - 1] = json_loads(log[n - 1]) /\ cache[n] = json_loads(log[n])
            /\ conn[c].pc = "bcast" /\ conn[c].bobj = cache[n - 1]
            /\ conn[d].pc = "bcast" /\ conn[d].bobj = cache[n]

(***************************************************************************)
(* C17.  The member sets partition the online users: every member of a     *)
(* room is online, and every online user is a member of exactly one room.  *)
(***************************************************************************)
C17_RoomsPartitionOnline ==
    /\ \A r \in DOMAIN rooms : rooms[r] \subseteq client_names(clients)
    /\ \A u \in client_names(clients) :
          Cardinality({r \in DOMAIN rooms : u \in rooms[r]}) = 1

\* A session has joined the room it was already in, the other session has
\* logged in and is gone, and the first is the one member of that room.
C17_Witness ==
    \E c, d \in Conns :
        /\ c # d
        /\ Active(c) /\ Registered(c) /\ conn[c].pc = "recv"
        /\ Count(inbox[c], [type |-> "info", room |-> GENERAL]) = 1
        /\ conn[d].pc = "done" /\ conn[d].username # NoUser
        /\ rooms[GENERAL] = {conn[c].username}
        /\ client_names(clients) = {conn[c].username}

(***************************************************************************)
(* C18.  A session that joins a room is sent each message record at most   *)
(* once, by the replay and by broadcast together: among the events sent    *)
(* to a client since its last join confirmation, no message record occurs  *)
(* twice.                                                                  *)
(***************************************************************************)
C18_OnceAfterJoin ==
    \A c \in Conns :
        LET box == inbox[c]
            k == EnteredIdx(box)
        IN  (k > 0 /\ box[k].obj.type = "info") =>
               \A i, j \in (k + 1)..Len(box) :
                   (i < j /\ box[i].obj.type = "message") => box[j].obj # box[i].obj

\* The position of the record m in the log of its room.
LogPos(m) ==
    LET log == files[room_log_path(m.room)]
    IN  CHOOSE i \in 1..Len(log) : json_ok(log[i]) /\ json_loads(log[i]) = m

(***************************************************************************)
(* C19.  Two message events of one room from different senders that        *)
(* broadcast delivers to a client since it last entered a room arrive in   *)
(* the order in which their records stand in the room's log.               *)
(***************************************************************************)
C19_BroadcastInLogOrder ==
    \A c \in Conns :
        LET box == inbox[c]
            k == EnteredIdx(box)
        IN  \A i, j \in (k + 1)..Len(box) :
                (/\ i < j
                 /\ box[i].via = "bcast" /\ box[j].via = "bcast"
                 /\ box[i].obj.type = "message" /\ box[j].obj.type = "message"
                 /\ box[i].obj.room = box[j].obj.room
                 /\ box[i].obj.from # box[j].obj.from)
                => LogPos(box[i].obj) < LogPos(box[j].obj)

(***************************************************************************)
(* C20.  A user_left_room event is sent only for a user who has moved out  *)
(* of the room: no client is sent a user_left_room event whose room_users  *)
(* list holds the user it names, and no client is sent one that names the  *)
(* client's own user.                                                      *)
(***************************************************************************)
C20_LeftOnlyWhenMoved ==
    \A c \in Conns :
        \A i \in 1..Len(inbox[c]) :
            LET e == inbox[c][i].obj
            IN  e.type = "user_left_room" =>
                   /\ e.username \notin e.room_users
                   /\ e.username # conn[c].username

====
